---- MODULE Spec2Model ----
(***************************************************************************)
(* ThreatSense worker: the scan orchestrator run_scan                      *)
(* (apps/worker/tasks/scan_task.py), the plugin registry and the plugins   *)
(* NmapStub, NucleiScan and SocRules, over a shared relational store.      *)
(*                                                                         *)
(* Every worker runs run_scan inside one SQLAlchemy Session.  The model    *)
(* keeps, per worker, the Session's view of the ScanRun row: obj[w] is the *)
(* row as last loaded (the committed state the unit of work diffs against) *)
(* and a commit writes exactly the columns whose new value differs from    *)
(* it.  One action is one round trip to the store or one plugin call, so   *)
(* that deliveries of the same scan id interleave as they do between       *)
(* worker processes.                                                       *)
(***************************************************************************)
EXTENDS Integers, Sequences, FiniteSets, Bags, TLC

(* ------------------------------ bounds --------------------------------- *)

\* Deliveries of scan ids made by the task queue in one behaviour.
MaxDeliveries == 2
\* Last value of the wall clock (datetime.utcnow(), in seconds).
MaxNow == 1

Workers == {"w1", "w2"}
ScanIds == {"s1", "s2"}

(* ------------------------- values of the store ------------------------- *)

\* None of an optional datetime column (started_at, finished_at).
NoTime == -1
\* None of an optional string column (error_message) and of a dict.get miss.
NoneStr == "<None>"
\* None of artifact_path.
NoPath == "<NoPath>"

MutableRow(st, sa, fa, ap, em) ==
    [status |-> st, started_at |-> sa, finished_at |-> fa,
     artifact_path |-> ap, error_message |-> em]

\* A ScanRun as the request layer creates it.
QueuedRow == MutableRow("queued", NoTime, NoTime, NoPath, NoneStr)

\* Asset rows: id -> kind, value, tenant.
AssetRow(a) ==
    CASE a = "a1" -> [id |-> "a1", tenant_id |-> "t1", kind |-> "log_source", value |-> "m365"]
      [] a = "a2" -> [id |-> "a2", tenant_id |-> "t1", kind |-> "domain", value |-> "y.test"]
AssetIds == {"a1", "a2"}
\* The Asset the asset-management layer deletes in the model.
Deletable == {"a1"}

(* ----------------------- JSON and Python values ------------------------ *)

\* A decoded JSON value: None, an int, a str, a list or a dict.
JNone == [t |-> "none", n |-> 0, s |-> ""]
JInt(n) == [t |-> "int", n |-> n, s |-> ""]
JStr(s) == [t |-> "str", n |-> 0, s |-> s]
JList(xs) == [t |-> "list", n |-> 0, s |-> "", items |-> xs]
JDict(d) == [t |-> "dict", n |-> 0, s |-> "", d |-> d]

\* dict.get(k): None when the key is absent.
DictGet(d, k) == IF k \in DOMAIN d THEN d[k] ELSE JNone

\* Python truthiness of a value, as used by `x or default`.
Truthy(v) ==
    CASE v.t = "none" -> FALSE
      [] v.t = "int" -> v.n # 0
      [] v.t = "str" -> v.s # ""
      [] v.t = "list" -> v.items # <<>>
      [] v.t = "dict" -> DOMAIN v.d # {}

PyOr(v, default) == IF Truthy(v) THEN v ELSE default

\* Decimal literals int() accepts among the strings of the model.
IntLiterals ==
    [s \in {"1", "2", "15", "600"} |->
        CASE s = "1" -> 1 [] s = "2" -> 2 [] s = "15" -> 15 [] s = "600" -> 600]

\* int(v): the number, or ValueError for a str that is no decimal literal.
PyInt(v) ==
    CASE v.t = "int" -> [ok |-> TRUE, n |-> v.n, msg |-> ""]
      [] v.t = "str" /\ v.s \in DOMAIN IntLiterals ->
            [ok |-> TRUE, n |-> IntLiterals[v.s], msg |-> ""]
      [] OTHER ->
            [ok |-> FALSE, n |-> 0,
             msg |-> "invalid literal for int() with base 10: '" \o v.s \o "'"]

\* The parameters_json texts the request layer stores in the model.
P_EMPTY == ""
P_OBJ == "{}"
P_BAD == "{bad"
P_RUNID == "{\"run_id\":\"r1\"}"
P_RATE == "{\"rate_limit\":\"fast\"}"
P_WINDOW == "{\"window_minutes\":\"soon\"}"
P_WCT == "{\"wall_clock_timeout\":1}"

EmptyDict == [k \in {} |-> JNone]

\* json.loads(text): the dict, or JSONDecodeError.
JsonLoads(text) ==
    CASE text = P_OBJ -> [ok |-> TRUE, d |-> EmptyDict, msg |-> ""]
      [] text = P_RUNID -> [ok |-> TRUE, d |-> [run_id |-> JStr("r1")], msg |-> ""]
      [] text = P_RATE -> [ok |-> TRUE, d |-> [rate_limit |-> JStr("fast")], msg |-> ""]
      [] text = P_WINDOW -> [ok |-> TRUE, d |-> [window_minutes |-> JStr("soon")], msg |-> ""]
      [] text = P_WCT -> [ok |-> TRUE, d |-> [wall_clock_timeout |-> JInt(1)], msg |-> ""]
      [] text = P_EMPTY ->
            [ok |-> FALSE, d |-> EmptyDict,
             msg |-> "Expecting value: line 1 column 1 (char 0)"]
      [] OTHER ->
            [ok |-> FALSE, d |-> EmptyDict,
             msg |-> "Expecting property name enclosed in double quotes: line 1 column 2 (char 1)"]

\* json.loads(scan.parameters_json or "{}")
LoadParams(text) == JsonLoads(IF text = "" THEN "{}" ELSE text)

\* datetime.strftime("%Y%m%dT%H%M%SZ"): one text per second of the clock.
Strftime(t) == "19700101T00000" \o ToString(t) \o "Z"

(* ------------------------------ plugins -------------------------------- *)

\* PluginResult(findings, artifact_path); IsNone marks a call that returned None.
PluginResult(fs, ap) == [isNone |-> FALSE, findings |-> fs, artifact_path |-> ap]
NoneResult == [isNone |-> TRUE, findings |-> <<>>, artifact_path |-> NoPath]

\* What a call of plugin.run did: returned `ret` or raised `msg`; whether it
\* created the artifacts directory, which files it wrote, whether it started
\* the external process.
Returned(ret, mk, wr, st) ==
    [raised |-> FALSE, msg |-> "", ret |-> ret, mkdir |-> mk, wrote |-> wr, started |-> st]
Raised(msg, mk, wr, st) ==
    [raised |-> TRUE, msg |-> msg, ret |-> NoneResult, mkdir |-> mk, wrote |-> wr, started |-> st]

NmapStubRun(asset_kind, asset_value, p) ==
    Returned(PluginResult(
        <<[title |-> "Exposure check for " \o asset_value,
           severity |-> "info",
           category |-> "exposure",
           evidence |-> "Stub scan completed for " \o asset_kind \o ":" \o asset_value \o "."]>>,
        NoPath), FALSE, {}, FALSE)

\* What the environment does to one NucleiScan.run call: whether `nuclei` is
\* on PATH, whether the artifacts directory can be made, how the process
\* ends, and whether it wrote its -o file before ending.
ProcOutcomes == {"exit0", "exit_nonzero", "crash", "oserror", "timeout"}
NucleiEnvs ==
    [exists : BOOLEAN, mkdir_ok : BOOLEAN, proc : ProcOutcomes, wrote : BOOLEAN]

NucleiExists(env) == env.exists

CoerceTarget(asset_kind, asset_value, p) ==
    IF Truthy(DictGet(p, "target_url")) THEN DictGet(p, "target_url").s
    ELSE IF asset_kind \in {"domain", "ip"} THEN "https://" \o asset_value
    ELSE asset_value

ArtifactsRoot(p) == PyOr(DictGet(p, "artifacts_dir"), JStr("/tmp/threatsense_artifacts")).s

\* run_id = params.get("run_id") or utcnow().strftime(...)
RunId(p, t) == PyOr(DictGet(p, "run_id"), JStr(Strftime(t))).s

NucleiOutPath(p, t) == ArtifactsRoot(p) \o "/nuclei_" \o RunId(p, t) \o ".jsonl"

MissingBinaryFinding ==
    [title |-> "Nuclei binary not installed in worker image",
     severity |-> "high",
     category |-> "scanner_error",
     evidence |-> "The 'nuclei' executable was not found on PATH. Install nuclei in apps/worker/Dockerfile."]

\* A timeout reported with the severity of an execution error.
TimeoutFinding_High(wct, target) ==
    [title |-> "Nuclei scan timed out",
     severity |-> "high",
     category |-> "scanner_error",
     evidence |-> "Scan exceeded wall_clock_timeout=" \o ToString(wct) \o "s for target=" \o target \o "."]

TimeoutFinding(wct, target) ==
    [title |-> "Nuclei scan timed out",
     severity |-> "medium",
     category |-> "scanner_error",
     evidence |-> "Scan exceeded wall_clock_timeout=" \o ToString(wct) \o "s for target=" \o target \o "."]

ExecErrorFinding ==
    [title |-> "Nuclei scan execution error",
     severity |-> "high",
     category |-> "scanner_error",
     evidence |-> "Exception while running nuclei: FileNotFoundError: [Errno 2] No such file or directory: 'nuclei'"]

\* What run returns after subprocess.run returned, whatever the exit code:
\* success with the artifact path; the artifact's records are not turned
\* into drafts here.
NucleiSuccess(out_path) == PluginResult(<<>>, out_path)

\* NucleiScan.run past the binary check, at time t, with `files` the
\* artifact files that exist.
NucleiScanExec(asset_kind, asset_value, p, env, t, files) ==
    LET target == CoerceTarget(asset_kind, asset_value, p)
        rate_limit == PyInt(PyOr(DictGet(p, "rate_limit"), JInt(50)))
        timeout == PyInt(PyOr(DictGet(p, "timeout"), JInt(10)))
        retries == PyInt(PyOr(DictGet(p, "retries"), JInt(1)))
        out_path == NucleiOutPath(p, t)
        wct == PyInt(PyOr(DictGet(p, "wall_clock_timeout"), JInt(600)))
        written == IF env.wrote THEN {out_path} ELSE {}
        partial == IF out_path \in files \cup written THEN out_path ELSE NoPath
    IN  IF ~rate_limit.ok THEN Raised(rate_limit.msg, FALSE, {}, FALSE)
        ELSE IF ~timeout.ok THEN Raised(timeout.msg, FALSE, {}, FALSE)
        ELSE IF ~retries.ok THEN Raised(retries.msg, FALSE, {}, FALSE)
        ELSE IF ~env.mkdir_ok
          THEN Raised("[Errno 13] Permission denied: '" \o ArtifactsRoot(p) \o "'", FALSE, {}, FALSE)
        ELSE IF ~wct.ok THEN Raised(wct.msg, TRUE, {}, FALSE)
        ELSE CASE env.proc = "timeout" ->
                    Returned(PluginResult(<<TimeoutFinding(wct.n, target)>>, partial),
                             TRUE, written, TRUE)
               [] env.proc = "oserror" ->
                    Returned(PluginResult(<<ExecErrorFinding>>,
                                          IF out_path \in files THEN out_path ELSE NoPath),
                             TRUE, {}, TRUE)
               [] OTHER ->
                    Returned(NucleiSuccess(out_path), TRUE, written, TRUE)

\* A NucleiScan.run that makes the artifacts directory before it looks for
\* the binary.
NucleiScanRun_MkdirFirst(asset_kind, asset_value, p, env, t, files) ==
    IF ~NucleiExists(env)
      THEN Returned(PluginResult(<<MissingBinaryFinding>>, NoPath), TRUE, {}, FALSE)
      ELSE NucleiScanExec(asset_kind, asset_value, p, env, t, files)

\* NucleiScan.run
NucleiScanRun(asset_kind, asset_value, p, env, t, files) ==
    IF ~NucleiExists(env)
      THEN Returned(PluginResult(<<MissingBinaryFinding>>, NoPath), FALSE, {}, FALSE)
      ELSE NucleiScanExec(asset_kind, asset_value, p, env, t, files)

(* ------------------------------ SocRules ------------------------------- *)

Range(f) == {f[i] : i \in DOMAIN f}

\* A normalized event is a dict of strings; e.get(k) is None for a missing key.
EvGet(e, k) == IF k \in DOMAIN e THEN e[k] ELSE NoneStr
\* e.get(k) or default
EvGetOr(e, k, default) == IF EvGet(e, k) \in {NoneStr, ""} THEN default ELSE EvGet(e, k)

\* Event.ts.isoformat() + "Z", and SocRules._parse_ts of such a text.
\* The instants events of the model carry: 20 minutes ago, and the clock's.
Seconds == {-1200} \cup (0 .. MaxNow)
IsoFormatZ(t) == "ts" \o ToString(t) \o "Z"

\* ISO texts with a UTC offset other than zero: the wall-clock seconds the
\* text shows and the seconds its offset is ahead of UTC.  The instant such
\* a text denotes is wall - offset.
OffsetTexts ==
    [s \in {"ts2400+01:00"} |-> [wall |-> 2400, offset |-> 3600]]

\* _parse_ts: None for a missing or empty value and for a text fromisoformat
\* rejects; otherwise the parsed datetime with its tzinfo replaced by None,
\* that is the wall-clock reading of the text, whatever its offset.
ParseTs(ts_val) ==
    IF \E t \in Seconds : IsoFormatZ(t) = ts_val
      THEN [ok |-> TRUE, t |-> CHOOSE t \in Seconds : IsoFormatZ(t) = ts_val]
    ELSE IF ts_val \in DOMAIN OffsetTexts
      THEN [ok |-> TRUE, t |-> OffsetTexts[ts_val].wall]
      ELSE [ok |-> FALSE, t |-> 0]

FailedLoginTypes == {"auth_failed", "login_failed", "failed_login"}
AdminActionTypes == {"admin_action", "privileged_action"}
NewAdminTypes == {"user_role_changed", "admin_created", "privilege_granted"}

IsFailedLogin(e) == EvGet(e, "event_type") \in FailedLoginTypes
UserOf(e) == EvGetOr(e, "user", "unknown_user")
IpOf(e) == EvGetOr(e, "ip", "unknown_ip")

\* The keys of a defaultdict in insertion order.
InsertionOrder(keys) ==
    LET firsts == {i \in 1 .. Len(keys) : \A j \in 1 .. (i - 1) : keys[j] # keys[i]}
    IN  [n \in 1 .. Cardinality(firsts) |->
            keys[CHOOSE i \in firsts : Cardinality({j \in firsts : j <= i}) = n]]

EventBrief(e) ==
    EvGet(e, "ts") \o ":" \o EvGet(e, "event_type") \o ":" \o EvGet(e, "user") \o "@" \o EvGet(e, "ip")

\* A rule that fires only above the threshold.
DetectBruteforceUserIp_Above(events, threshold) ==
    LET fails == SelectSeq(events, IsFailedLogin)
        pairs == InsertionOrder([i \in 1 .. Len(fails) |-> <<UserOf(fails[i]), IpOf(fails[i])>>])
        Count(k) == Len(SelectSeq(fails, LAMBDA e : <<UserOf(e), IpOf(e)>> = k))
        hits == SelectSeq(pairs, LAMBDA k : Count(k) > threshold)
    IN  [i \in 1 .. Len(hits) |->
            [title |-> "Potential brute force against user " \o hits[i][1],
             severity |-> "high",
             category |-> "soc.auth",
             evidence |-> ToString(Count(hits[i])) \o " failed login attempts for user="
                          \o hits[i][1] \o " from ip=" \o hits[i][2]
                          \o " within the monitoring window."]]

DetectBruteforceUserIp(events, threshold) ==
    LET fails == SelectSeq(events, IsFailedLogin)
        pairs == InsertionOrder([i \in 1 .. Len(fails) |-> <<UserOf(fails[i]), IpOf(fails[i])>>])
        Count(k) == Len(SelectSeq(fails, LAMBDA e : <<UserOf(e), IpOf(e)>> = k))
        hits == SelectSeq(pairs, LAMBDA k : Count(k) >= threshold)
    IN  [i \in 1 .. Len(hits) |->
            [title |-> "Potential brute force against user " \o hits[i][1],
             severity |-> "high",
             category |-> "soc.auth",
             evidence |-> ToString(Count(hits[i])) \o " failed login attempts for user="
                          \o hits[i][1] \o " from ip=" \o hits[i][2]
                          \o " within the monitoring window."]]

\* A rule that looks at the number of failures only.
DetectBruteforceGlobalIp_AnyUsers(events, threshold) ==
    LET fails == SelectSeq(events, IsFailedLogin)
        ips == InsertionOrder([i \in 1 .. Len(fails) |-> IpOf(fails[i])])
        Count(ip) == Len(SelectSeq(fails, LAMBDA e : IpOf(e) = ip))
        Users(ip) == {UserOf(fails[i]) : i \in {j \in 1 .. Len(fails) : IpOf(fails[j]) = ip}}
        hits == SelectSeq(ips, LAMBDA ip : Count(ip) >= threshold)
    IN  [i \in 1 .. Len(hits) |->
            [title |-> "Potential password spraying activity",
             severity |-> "high",
             category |-> "soc.auth",
             evidence |-> ToString(Count(hits[i])) \o " failed logins from ip=" \o hits[i]
                          \o " across " \o ToString(Cardinality(Users(hits[i]))) \o " users."]]

DetectBruteforceGlobalIp(events, threshold) ==
    LET fails == SelectSeq(events, IsFailedLogin)
        ips == InsertionOrder([i \in 1 .. Len(fails) |-> IpOf(fails[i])])
        Count(ip) == Len(SelectSeq(fails, LAMBDA e : IpOf(e) = ip))
        Users(ip) == {UserOf(fails[i]) : i \in {j \in 1 .. Len(fails) : IpOf(fails[j]) = ip}}
        hits == SelectSeq(ips, LAMBDA ip : Count(ip) >= threshold /\ Cardinality(Users(ip)) >= 3)
    IN  [i \in 1 .. Len(hits) |->
            [title |-> "Potential password spraying activity",
             severity |-> "high",
             category |-> "soc.auth",
             evidence |-> ToString(Count(hits[i])) \o " failed logins from ip=" \o hits[i]
                          \o " across " \o ToString(Cardinality(Users(hits[i]))) \o " users."]]

\* A rule whose examples are the latest five admin events.
DetectSuspiciousAdminActivity_Latest(events, threshold) ==
    LET admin == SelectSeq(events, LAMBDA e : EvGet(e, "event_type") \in AdminActionTypes)
        skip == IF Len(admin) < 5 THEN 0 ELSE Len(admin) - 5
        examples == [i \in 1 .. (Len(admin) - skip) |-> EventBrief(admin[skip + i])]
    IN  IF Len(admin) >= threshold
          THEN <<[title |-> "Burst of privileged/admin actions detected",
                  severity |-> "medium",
                  category |-> "soc.privilege",
                  evidence |-> ToString(Len(admin)) \o " privileged actions within the monitoring window.",
                  examples |-> examples]>>
          ELSE <<>>

DetectSuspiciousAdminActivity(events, threshold) ==
    LET admin == SelectSeq(events, LAMBDA e : EvGet(e, "event_type") \in AdminActionTypes)
        examples == [i \in 1 .. (IF Len(admin) < 5 THEN Len(admin) ELSE 5) |-> EventBrief(admin[i])]
    IN  IF Len(admin) >= threshold
          THEN <<[title |-> "Burst of privileged/admin actions detected",
                  severity |-> "medium",
                  category |-> "soc.privilege",
                  evidence |-> ToString(Len(admin)) \o " privileged actions within the monitoring window.",
                  examples |-> examples]>>
          ELSE <<>>

\* "admin" in action and ("add" in action or "grant" in action), on the
\* lower-cased action texts of the model.
ActionGrantsAdmin(action) == action \in {"add admin", "grant admin role"}

DetectNewAdminCreation(events) ==
    LET matches == SelectSeq(events, LAMBDA e :
                        \/ EvGetOr(e, "event_type", "") \in NewAdminTypes
                        \/ ActionGrantsAdmin(EvGetOr(e, "action", "")))
        examples == [i \in 1 .. (IF Len(matches) < 5 THEN Len(matches) ELSE 5) |-> EventBrief(matches[i])]
    IN  IF matches # <<>>
          THEN <<[title |-> "New admin/privilege grant event detected",
                  severity |-> "high",
                  category |-> "soc.privilege",
                  evidence |-> "Detected potential privilege escalation events.",
                  examples |-> examples]>>
          ELSE <<>>

\* The session-anomaly rule: one finding per event of the working set whose
\* session signal indicates cross-context reuse.
DetectImpossibleTravelHint(events) ==
    LET hits == SelectSeq(events, LAMBDA e : EvGet(e, "session_signal") = "reuse")
    IN  [i \in 1 .. Len(hits) |->
            [title |-> "Session anomaly hint for user " \o UserOf(hits[i]),
             severity |-> "medium",
             category |-> "soc.session",
             evidence |-> "Session signals indicate cross-context reuse."]]

NoEventsFinding ==
    [title |-> "SOC ingest: no events provided",
     severity |-> "info",
     category |-> "soc",
     evidence |-> "No events were passed to the SOC rules engine. Provide params['events'] as a list of normalized events."]

\* A summary reported as a low-severity alert.
SummaryFinding_Low(n, window_minutes, asset_value) ==
    [title |-> "SOC window summary: no high-signal alerts",
     severity |-> "low",
     category |-> "soc",
     evidence |-> "Processed " \o ToString(n) \o " events within the last "
                  \o ToString(window_minutes) \o " minutes from source=" \o asset_value
                  \o ". No alerts fired."]

SummaryFinding(n, window_minutes, asset_value) ==
    [title |-> "SOC window summary: no high-signal alerts",
     severity |-> "info",
     category |-> "soc",
     evidence |-> "Processed " \o ToString(n) \o " events within the last "
                  \o ToString(window_minutes) \o " minutes from source=" \o asset_value
                  \o ". No alerts fired."]

\* norm_events: the events whose timestamp, or now when it does not parse,
\* is not older than the cutoff.
InWindow(events, t, window_minutes) ==
    SelectSeq(events, LAMBDA e :
        LET ts == ParseTs(EvGet(e, "ts"))
        IN  (IF ts.ok THEN ts.t ELSE t) >= t - window_minutes * 60)

SocArtifactPath(p, t) == ArtifactsRoot(p) \o "/soc_events_" \o RunId(p, t) \o ".json"

\* thresholds = params.get("thresholds") or {}; int(thresholds.get(k) or default)
Threshold(p, k, default) ==
    LET thresholds == IF Truthy(DictGet(p, "thresholds"))
                        THEN DictGet(p, "thresholds").d ELSE EmptyDict
    IN  PyInt(PyOr(DictGet(thresholds, k), JInt(default)))

\* SocRules.run at time t; `events` is the value of params.get("events").
SocRulesRun(asset_kind, asset_value, p, events, env, t) ==
    LET window_minutes == PyInt(PyOr(DictGet(p, "window_minutes"), JInt(15)))
        th_failed_login == Threshold(p, "failed_login_per_user_ip", 10)
        th_failed_login_global == Threshold(p, "failed_login_global_per_ip", 30)
        th_admin_events == Threshold(p, "admin_actions_per_window", 3)
        artifact_path == SocArtifactPath(p, t)
        norm_events == InWindow(events.items, t, window_minutes.n)
        fired == DetectBruteforceUserIp(norm_events, th_failed_login.n)
                 \o DetectBruteforceGlobalIp(norm_events, th_failed_login_global.n)
                 \o DetectSuspiciousAdminActivity(norm_events, th_admin_events.n)
                 \o DetectNewAdminCreation(norm_events)
                 \o DetectImpossibleTravelHint(norm_events)
        findings == IF fired = <<>>
                      THEN <<SummaryFinding(Len(norm_events), window_minutes.n, asset_value)>>
                      ELSE fired
    IN  IF events.t # "list" \/ ~Truthy(events)
          THEN Returned(PluginResult(<<NoEventsFinding>>, NoPath), FALSE, {}, FALSE)
        ELSE IF ~window_minutes.ok THEN Raised(window_minutes.msg, FALSE, {}, FALSE)
        ELSE IF ~th_failed_login.ok THEN Raised(th_failed_login.msg, FALSE, {}, FALSE)
        ELSE IF ~th_failed_login_global.ok THEN Raised(th_failed_login_global.msg, FALSE, {}, FALSE)
        ELSE IF ~th_admin_events.ok THEN Raised(th_admin_events.msg, FALSE, {}, FALSE)
        ELSE IF ~env.mkdir_ok
          THEN Raised("[Errno 13] Permission denied: '" \o ArtifactsRoot(p) \o "'", FALSE, {}, FALSE)
        ELSE Returned(PluginResult(findings, artifact_path), TRUE, {artifact_path}, FALSE)

(* ------------------------------ the store ------------------------------ *)

VARIABLES
    cfg,        \* ScanRun columns the orchestrator never writes, per scan id
    scanRuns,   \* ScanRun columns the orchestrator writes, per scan id
    assets,     \* ids of the Asset rows that exist
    findings,   \* the Finding rows, a bag: the store numbers equal rows apart
    events,     \* the Event rows, most recent first
    now,        \* the wall clock
    fsDirs,     \* artifact directories that exist
    fsFiles,    \* artifact files that exist
    deliveries, \* scan ids delivered so far
    passed,     \* per scan id, how many invocations passed the status guard
    wk          \* per worker: the run_scan invocation in progress

vars == <<cfg, scanRuns, assets, findings, events, now, fsDirs, fsFiles, deliveries, passed, wk>>

\* PLUGINS
PLUGINS == {"nmap_stub", "nuclei_scan", "soc_rules"}
PluginsGet(name) == IF name \in PLUGINS THEN name ELSE NoneStr

Request(asset_id, plugin, parameters_json) ==
    [tenant_id |-> "t1", asset_id |-> asset_id, plugin |-> plugin,
     parameters_json |-> parameters_json]

\* The scans the request layer has queued: s1 is any of these requests on
\* asset a1, s2 a stub scan of asset a2.
Requests(s) ==
    IF s = "s1"
      THEN {Request("a1", "nmap_stub", P_EMPTY),
            Request("a1", "nuclei_scan", P_RATE),
            Request("a1", "soc_rules", P_OBJ), Request("a1", "soc_rules", P_WINDOW),
            Request("a1", "zap_scan", P_OBJ), Request("a1", "zap_scan", P_BAD)}
      ELSE {Request("a2", "nmap_stub", P_OBJ)}

EventRow(tenant_id, ts, event_type, user, ip) ==
    [tenant_id |-> tenant_id, ts |-> ts, source |-> "m365", event_type |-> event_type,
     user |-> user, ip |-> ip, raw_json |-> "{}"]

\* What the ingestion layer has stored.
EventTable ==
    <<EventRow("t1", 0, "admin_created", "root", "1.2.3.4"),
      EventRow("t2", 0, "admin_created", "eve", "5.6.7.8"),
      EventRow("t1", -1200, "failed_login", "bob", NoneStr)>>

NoEnv == [exists |-> FALSE, mkdir_ok |-> FALSE, proc |-> "none", wrote |-> FALSE]

\* A worker with no invocation in progress.
Idle ==
    [pc |-> "idle", sid |-> "s0", status0 |-> "none", obj |-> QueuedRow,
     asset_loaded |-> FALSE, params |-> EmptyDict, events |-> <<>>,
     result |-> NoneResult, pending |-> <<>>, exc |-> NoneStr,
     calls |-> 0, started |-> 0, env |-> NoEnv]

Init ==
    /\ cfg \in [ScanIds -> UNION {Requests(s) : s \in ScanIds}]
    /\ \A s \in ScanIds : cfg[s] \in Requests(s)
    /\ scanRuns = [s \in ScanIds |-> QueuedRow]
    /\ assets = AssetIds
    /\ findings = EmptyBag
    /\ events = EventTable
    /\ now = 0
    /\ fsDirs = {}
    /\ fsFiles = {}
    /\ deliveries = 0
    /\ passed = [s \in ScanIds |-> 0]
    /\ wk = [w \in Workers |-> Idle]

(* --------------------------- the Session ------------------------------- *)

\* The UPDATE a flush emits: the columns whose value differs from the one
\* the Session loaded, and no other.
Flush(row, loaded, new) ==
    [c \in DOMAIN row |-> IF new[c] # loaded[c] THEN new[c] ELSE row[c]]

\* f.get(k, default) on a finding-draft.
DraftGet(f, k, default) == IF k \in DOMAIN f THEN f[k] ELSE default

\* A Finding(...) whose severity defaults to "info".
MkFinding_DefaultInfo(c, sid, asset_id, f) ==
    [tenant_id |-> c.tenant_id, scan_run_id |-> sid, asset_id |-> asset_id,
     title |-> f["title"],
     severity |-> DraftGet(f, "severity", "info"),
     category |-> DraftGet(f, "category", "general"),
     evidence |-> DraftGet(f, "evidence", "")]

\* A Finding(...) that is bound to no ScanRun.
MkFinding_NoRun(c, sid, asset_id, f) ==
    [tenant_id |-> c.tenant_id, scan_run_id |-> NoneStr, asset_id |-> asset_id,
     title |-> f["title"],
     severity |-> DraftGet(f, "severity", "low"),
     category |-> DraftGet(f, "category", "general"),
     evidence |-> DraftGet(f, "evidence", "")]

\* Finding(...) of run_scan for draft f.
MkFinding(c, sid, asset_id, f) ==
    [tenant_id |-> c.tenant_id, scan_run_id |-> sid, asset_id |-> asset_id,
     title |-> f["title"],
     severity |-> DraftGet(f, "severity", "low"),
     category |-> DraftGet(f, "category", "general"),
     evidence |-> DraftGet(f, "evidence", "")]

\* The first draft of a result that Finding(...) cannot be built from
\* (no "title": KeyError), or 0.
FirstBadDraft(fs) ==
    IF \E k \in 1 .. Len(fs) : "title" \notin DOMAIN fs[k]
      THEN CHOOSE k \in 1 .. Len(fs) :
               /\ "title" \notin DOMAIN fs[k]
               /\ \A j \in 1 .. k - 1 : "title" \in DOMAIN fs[j]
      ELSE 0

\* The bag of the rows of a sequence.
RECURSIVE BagOf(_)
BagOf(rows) ==
    IF rows = <<>> THEN EmptyBag
    ELSE BagOf(Tail(rows)) (+) SetToBag({Head(rows)})

Set(w, r) == wk' = [wk EXCEPT ![w] = r]

\* The invocation of worker w is over: run_scan returned or raised, and the
\* Session is closed.
End(w) == Set(w, Idle)

(* ------------------------------ run_scan ------------------------------- *)

\* The queue hands a delivery to an idle worker.  The workers are identical:
\* the model lets w2 take one only while w1 is busy.
Takes(w) ==
    /\ wk[w].pc = "idle"
    /\ w = "w2" => wk["w1"].pc # "idle"

\* The queue delivers an id that matches no ScanRun: run_scan returns.
DeliverUnknown(w) ==
    /\ Takes(w)
    /\ deliveries < MaxDeliveries
    /\ deliveries' = deliveries + 1
    /\ End(w)
    /\ UNCHANGED <<cfg, scanRuns, assets, findings, events, now, fsDirs, fsFiles, passed>>

\* The queue delivers sid and the worker's Session loads the ScanRun.
SelectScan(w, sid) ==
    /\ Takes(w)
    /\ deliveries < MaxDeliveries
    /\ sid \in ScanIds
    /\ deliveries' = deliveries + 1
    /\ Set(w, [Idle EXCEPT !.pc = "select_asset", !.sid = sid,
                           !.status0 = scanRuns[sid].status, !.obj = scanRuns[sid]])
    /\ UNCHANGED <<cfg, scanRuns, assets, findings, events, now, fsDirs, fsFiles, passed>>

\* select(Asset) finds no row.
AssetNotFound(w) ==
    /\ wk[w].pc = "select_asset"
    /\ cfg[wk[w].sid].asset_id \notin assets
    /\ Set(w, [wk[w] EXCEPT !.pc = "commit_missing"])
    /\ UNCHANGED <<cfg, scanRuns, assets, findings, events, now, fsDirs, fsFiles, deliveries, passed>>

\* An asset-missing branch that returns without its commit.
CommitAssetMissing_NoCommit(w) ==
    /\ wk[w].pc = "commit_missing"
    /\ End(w)
    /\ UNCHANGED <<cfg, scanRuns, assets, findings, events, now, fsDirs, fsFiles, deliveries, passed>>

\* status = "failed", error_message = "Asset not found", commit, return.
CommitAssetMissing(w) ==
    LET sid == wk[w].sid
        new == [wk[w].obj EXCEPT !.status = "failed", !.error_message = "Asset not found"]
    IN  /\ wk[w].pc = "commit_missing"
        /\ scanRuns' = [scanRuns EXCEPT ![sid] = Flush(@, wk[w].obj, new)]
        /\ End(w)
        /\ UNCHANGED <<cfg, assets, findings, events, now, fsDirs, fsFiles, deliveries, passed>>

\* The Asset exists and the status the Session loaded is terminal: return.
GuardNoOp(w) ==
    /\ wk[w].pc = "select_asset"
    /\ cfg[wk[w].sid].asset_id \in assets
    /\ wk[w].obj.status \notin {"queued", "running"}
    /\ End(w)
    /\ UNCHANGED <<cfg, scanRuns, assets, findings, events, now, fsDirs, fsFiles, deliveries, passed>>

\* The Asset exists and the status the Session loaded is queued or running.
GuardPass(w) ==
    /\ wk[w].pc = "select_asset"
    /\ cfg[wk[w].sid].asset_id \in assets
    /\ wk[w].obj.status \in {"queued", "running"}
    /\ Set(w, [wk[w] EXCEPT !.pc = "commit_running"])
    /\ passed' = [passed EXCEPT ![wk[w].sid] = @ + 1]
    /\ UNCHANGED <<cfg, scanRuns, assets, findings, events, now, fsDirs, fsFiles, deliveries>>

\* status = "running", started_at = utcnow(), commit.  The commit expires
\* the Session's objects.
CommitRunning(w) ==
    LET sid == wk[w].sid
        new == [wk[w].obj EXCEPT !.status = "running", !.started_at = now]
    IN  /\ wk[w].pc = "commit_running"
        /\ scanRuns' = [scanRuns EXCEPT ![sid] = Flush(@, wk[w].obj, new)]
        /\ Set(w, [wk[w] EXCEPT !.pc = "decode", !.asset_loaded = FALSE])
        /\ UNCHANGED <<cfg, assets, findings, events, now, fsDirs, fsFiles, deliveries, passed>>

\* An exception raised inside the try block: control goes to the handler.
Except(w, r, msg) == Set(w, [r EXCEPT !.pc = "handler", !.exc = msg])

\* scan.parameters_json reloads the expired ScanRun; json.loads raises.
DecodeFails(w) ==
    LET sid == wk[w].sid
        loaded == LoadParams(cfg[sid].parameters_json)
    IN  /\ wk[w].pc = "decode"
        /\ ~loaded.ok
        /\ Except(w, [wk[w] EXCEPT !.obj = scanRuns[sid]], loaded.msg)
        /\ UNCHANGED <<cfg, scanRuns, assets, findings, events, now, fsDirs, fsFiles, deliveries, passed>>

\* An unknown-plugin error that does not name the plugin.
UnknownPlugin_Unnamed(w) ==
    LET sid == wk[w].sid
        loaded == LoadParams(cfg[sid].parameters_json)
    IN  /\ wk[w].pc = "decode"
        /\ loaded.ok
        /\ PluginsGet(cfg[sid].plugin) = NoneStr
        /\ Except(w, [wk[w] EXCEPT !.obj = scanRuns[sid], !.params = loaded.d],
                  "Unknown plugin")
        /\ UNCHANGED <<cfg, scanRuns, assets, findings, events, now, fsDirs, fsFiles, deliveries, passed>>

\* PLUGINS.get(scan.plugin) is None: RuntimeError.
UnknownPlugin(w) ==
    LET sid == wk[w].sid
        loaded == LoadParams(cfg[sid].parameters_json)
    IN  /\ wk[w].pc = "decode"
        /\ loaded.ok
        /\ PluginsGet(cfg[sid].plugin) = NoneStr
        /\ Except(w, [wk[w] EXCEPT !.obj = scanRuns[sid], !.params = loaded.d],
                  "Unknown plugin: " \o cfg[sid].plugin)
        /\ UNCHANGED <<cfg, scanRuns, assets, findings, events, now, fsDirs, fsFiles, deliveries, passed>>

\* The parameters decode and the plugin is registered.
Resolve(w) ==
    LET sid == wk[w].sid
        loaded == LoadParams(cfg[sid].parameters_json)
    IN  /\ wk[w].pc = "decode"
        /\ loaded.ok
        /\ PluginsGet(cfg[sid].plugin) # NoneStr
        /\ Set(w, [wk[w] EXCEPT !.obj = scanRuns[sid], !.params = loaded.d,
                                !.pc = IF cfg[sid].plugin = "soc_rules"
                                         THEN "query_events" ELSE "call_plugin"])
        /\ UNCHANGED <<cfg, scanRuns, assets, findings, events, now, fsDirs, fsFiles, deliveries, passed>>

AssetGoneMsg == "Instance '<Asset>' has been deleted, or its row is otherwise not present."

\* asset.value or asset.kind reloads the expired Asset, whose row is gone.
AssetExpired(w) ==
    LET sid == wk[w].sid
    IN  /\ wk[w].pc \in {"query_events", "call_plugin"}
        /\ ~wk[w].asset_loaded
        /\ wk[w].pc = "query_events" =>
              PyInt(PyOr(DictGet(wk[w].params, "window_minutes"), JInt(15))).ok
        /\ cfg[sid].asset_id \notin assets
        /\ Except(w, wk[w], AssetGoneMsg)
        /\ UNCHANGED <<cfg, scanRuns, assets, findings, events, now, fsDirs, fsFiles, deliveries, passed>>

\* int(params.get("window_minutes") or 15) raises.
QueryEventsFails(w) ==
    LET window_minutes == PyInt(PyOr(DictGet(wk[w].params, "window_minutes"), JInt(15)))
    IN  /\ wk[w].pc = "query_events"
        /\ ~window_minutes.ok
        /\ Except(w, wk[w], window_minutes.msg)
        /\ UNCHANGED <<cfg, scanRuns, assets, findings, events, now, fsDirs, fsFiles, deliveries, passed>>

\* The Event rows of the tenant and source not older than the cutoff, most
\* recent first, as the dicts the plugin expects.
SelectEvents(tenant_id, source, cutoff) ==
    LET rows == SelectSeq(events, LAMBDA r :
                    r.tenant_id = tenant_id /\ r.source = source /\ r.ts >= cutoff)
    IN  [i \in 1 .. Len(rows) |->
            [ts |-> IsoFormatZ(rows[i].ts), source |-> rows[i].source,
             event_type |-> rows[i].event_type, user |-> rows[i].user, ip |-> rows[i].ip]]

QueryEvents(w) ==
    LET sid == wk[w].sid
        p == wk[w].params
        window_minutes == PyInt(PyOr(DictGet(p, "window_minutes"), JInt(15)))
        asset == AssetRow(cfg[sid].asset_id)
        source == PyOr(DictGet(p, "source"), JStr(asset.value)).s
        cutoff == now - window_minutes.n * 60
    IN  /\ wk[w].pc = "query_events"
        /\ window_minutes.ok
        /\ cfg[sid].asset_id \in assets
        /\ Set(w, [wk[w] EXCEPT !.pc = "call_plugin", !.asset_loaded = TRUE,
                                !.events = SelectEvents(cfg[sid].tenant_id, source, cutoff)])
        /\ UNCHANGED <<cfg, scanRuns, assets, findings, events, now, fsDirs, fsFiles, deliveries, passed>>

\* What the environment can do to one call of the plugin.
EnvsFor(plugin) ==
    CASE plugin = "nuclei_scan" ->
            {e \in NucleiEnvs :
                /\ ~e.exists => (~e.mkdir_ok /\ e.proc = "exit0" /\ ~e.wrote)
                /\ ~e.mkdir_ok => (e.proc = "exit0" /\ ~e.wrote)
                /\ e.proc \in {"oserror", "crash"} => ~e.wrote
                /\ e.proc \in {"exit0", "exit_nonzero"} => (e.wrote \/ ~e.mkdir_ok)}
      [] plugin = "soc_rules" ->
            {e \in NucleiEnvs : e.exists /\ e.proc = "exit0" /\ ~e.wrote}
      [] OTHER -> {NoEnv}

\* plugin.run(asset.kind, asset.value, params)
PluginRun(plugin, asset, p, evs, env, t, files) ==
    CASE plugin = "nmap_stub" -> NmapStubRun(asset.kind, asset.value, p)
      [] plugin = "nuclei_scan" -> NucleiScanRun(asset.kind, asset.value, p, env, t, files)
      [] plugin = "soc_rules" -> SocRulesRun(asset.kind, asset.value, p, JList(evs), env, t)

\* A call site that calls the plugin again when it raised.
CallPlugin_Retry(w, env) ==
    LET sid == wk[w].sid
        out == PluginRun(cfg[sid].plugin, AssetRow(cfg[sid].asset_id), wk[w].params,
                         wk[w].events, env, now, fsFiles)
        called == [wk[w] EXCEPT !.calls = @ + 1, !.asset_loaded = TRUE, !.env = env,
                                !.started = @ + (IF out.started THEN 1 ELSE 0)]
    IN  /\ wk[w].pc = "call_plugin"
        /\ wk[w].calls < 2
        /\ wk[w].asset_loaded \/ cfg[sid].asset_id \in assets
        /\ env \in EnvsFor(cfg[sid].plugin)
        /\ fsDirs' = fsDirs \cup (IF out.mkdir THEN {ArtifactsRoot(wk[w].params)} ELSE {})
        /\ fsFiles' = fsFiles \cup out.wrote
        /\ IF out.raised /\ wk[w].calls = 0
             THEN Set(w, called)
             ELSE IF out.raised THEN Except(w, called, out.msg)
             ELSE Set(w, [called EXCEPT !.pc = "persist", !.result = out.ret])
        /\ UNCHANGED <<cfg, scanRuns, assets, findings, events, now, deliveries, passed>>

\* result = plugin.run(...): the one call of the plugin, with its effects on
\* the artifacts file system.
CallPlugin(w, env) ==
    LET sid == wk[w].sid
        out == PluginRun(cfg[sid].plugin, AssetRow(cfg[sid].asset_id), wk[w].params,
                         wk[w].events, env, now, fsFiles)
        called == [wk[w] EXCEPT !.calls = @ + 1, !.asset_loaded = TRUE, !.env = env,
                                !.started = @ + (IF out.started THEN 1 ELSE 0)]
    IN  /\ wk[w].pc = "call_plugin"
        /\ wk[w].asset_loaded \/ cfg[sid].asset_id \in assets
        /\ env \in EnvsFor(cfg[sid].plugin)
        /\ fsDirs' = fsDirs \cup (IF out.mkdir THEN {ArtifactsRoot(wk[w].params)} ELSE {})
        /\ fsFiles' = fsFiles \cup out.wrote
        /\ IF out.raised
             THEN Except(w, called, out.msg)
             ELSE Set(w, [called EXCEPT !.pc = "persist", !.result = out.ret])
        /\ UNCHANGED <<cfg, scanRuns, assets, findings, events, now, deliveries, passed>>

\* The Finding rows run_scan builds from the first n drafts of its result.
Rows(w, n) ==
    LET sid == wk[w].sid
    IN  [k \in 1 .. n |->
            MkFinding(cfg[sid], sid, cfg[sid].asset_id, wk[w].result.findings[k])]

\* The loop over result.findings raises: result is None (AttributeError) or
\* a draft has no "title" (KeyError).  The Findings built so far stay pending.
PersistFault(w) ==
    LET bad == FirstBadDraft(wk[w].result.findings)
    IN  /\ wk[w].pc = "persist"
        /\ wk[w].result.isNone \/ bad > 0
        /\ IF wk[w].result.isNone
             THEN Except(w, wk[w], "'NoneType' object has no attribute 'findings'")
             ELSE Except(w, [wk[w] EXCEPT !.pending = Rows(w, bad - 1)], "'title'")
        /\ UNCHANGED <<cfg, scanRuns, assets, findings, events, now, fsDirs, fsFiles, deliveries, passed>>

\* A completion that inserts every Finding twice.
CommitDone_Twice(w) ==
    LET sid == wk[w].sid
        n == Len(wk[w].result.findings)
        new == [wk[w].obj EXCEPT !.status = "done", !.finished_at = now,
                                 !.artifact_path = wk[w].result.artifact_path]
    IN  /\ wk[w].pc = "persist"
        /\ ~wk[w].result.isNone
        /\ FirstBadDraft(wk[w].result.findings) = 0
        /\ findings' = findings (+) BagOf(Rows(w, n)) (+) BagOf(Rows(w, n))
        /\ scanRuns' = [scanRuns EXCEPT ![sid] = Flush(@, wk[w].obj, new)]
        /\ End(w)
        /\ UNCHANGED <<cfg, assets, events, now, fsDirs, fsFiles, deliveries, passed>>

\* Every draft becomes a pending Finding; status = "done", finished_at,
\* artifact_path; the commit writes the Findings and the ScanRun together.
CommitDone(w) ==
    LET sid == wk[w].sid
        n == Len(wk[w].result.findings)
        new == [wk[w].obj EXCEPT !.status = "done", !.finished_at = now,
                                 !.artifact_path = wk[w].result.artifact_path]
    IN  /\ wk[w].pc = "persist"
        /\ ~wk[w].result.isNone
        /\ FirstBadDraft(wk[w].result.findings) = 0
        /\ findings' = findings (+) BagOf(Rows(w, n))
        /\ scanRuns' = [scanRuns EXCEPT ![sid] = Flush(@, wk[w].obj, new)]
        /\ End(w)
        /\ UNCHANGED <<cfg, assets, events, now, fsDirs, fsFiles, deliveries, passed>>

StoreFaultMsg == "(psycopg2.errors.NotNullViolation) null value in column violates not-null constraint"

\* The store rejects an INSERT of that commit's flush (the Finding mirror
\* gives its primary key no value): the Session rolls the transaction back
\* (nothing is written, the pending Findings are expunged) and the exception
\* reaches the handler with the transaction inactive.
CommitDoneFails(w) ==
    /\ wk[w].pc = "persist"
    /\ ~wk[w].result.isNone
    /\ FirstBadDraft(wk[w].result.findings) = 0
    /\ Len(wk[w].result.findings) >= 1
    /\ Set(w, [wk[w] EXCEPT !.pc = "handler_inactive", !.exc = StoreFaultMsg])
    /\ UNCHANGED <<cfg, scanRuns, assets, findings, events, now, fsDirs, fsFiles, deliveries, passed>>

\* A handler that rolls the Session back before it records the failure.
HandlerCommit_Rollback(w) ==
    LET sid == wk[w].sid
        new == [scanRuns[sid] EXCEPT !.status = "failed", !.finished_at = now,
                                     !.error_message = wk[w].exc]
    IN  /\ wk[w].pc = "handler"
        /\ scanRuns' = [scanRuns EXCEPT ![sid] = new]
        /\ End(w)
        /\ UNCHANGED <<cfg, assets, findings, events, now, fsDirs, fsFiles, deliveries, passed>>

\* except Exception: status = "failed", finished_at, error_message = str(e),
\* commit.  The commit also writes the Findings that were pending.
HandlerCommit(w) ==
    LET sid == wk[w].sid
        new == [wk[w].obj EXCEPT !.status = "failed", !.finished_at = now,
                                 !.error_message = wk[w].exc]
    IN  /\ wk[w].pc = "handler"
        /\ findings' = findings (+) BagOf(wk[w].pending)
        /\ scanRuns' = [scanRuns EXCEPT ![sid] = Flush(@, wk[w].obj, new)]
        /\ End(w)
        /\ UNCHANGED <<cfg, assets, events, now, fsDirs, fsFiles, deliveries, passed>>

\* The handler after a failed flush: no rollback was issued, so its commit
\* raises PendingRollbackError and the exception leaves run_scan.
HandlerRaises(w) ==
    /\ wk[w].pc = "handler_inactive"
    /\ End(w)
    /\ UNCHANGED <<cfg, scanRuns, assets, findings, events, now, fsDirs, fsFiles, deliveries, passed>>

\* The store rejects an INSERT of the handler's commit, which flushes the
\* Findings left pending by the loop: nothing is written and the exception
\* leaves run_scan.
HandlerCommitFails(w) ==
    /\ wk[w].pc = "handler"
    /\ wk[w].pending # <<>>
    /\ End(w)
    /\ UNCHANGED <<cfg, scanRuns, assets, findings, events, now, fsDirs, fsFiles, deliveries, passed>>

(* --------------------------- the environment --------------------------- *)

\* A second of wall-clock time passes.
Tick ==
    /\ now < MaxNow
    /\ now' = now + 1
    /\ UNCHANGED <<cfg, scanRuns, assets, findings, events, fsDirs, fsFiles, deliveries, passed, wk>>

\* The asset-management layer deletes an Asset row.
DeleteAsset(a) ==
    /\ a \in assets
    /\ assets' = assets \ {a}
    /\ UNCHANGED <<cfg, scanRuns, findings, events, now, fsDirs, fsFiles, deliveries, passed, wk>>

Step(w) ==
    \/ DeliverUnknown(w)
    \/ \E sid \in ScanIds : SelectScan(w, sid)
    \/ AssetNotFound(w)
    \/ CommitAssetMissing(w)
    \/ GuardNoOp(w)
    \/ GuardPass(w)
    \/ CommitRunning(w)
    \/ DecodeFails(w)
    \/ UnknownPlugin(w)
    \/ Resolve(w)
    \/ AssetExpired(w)
    \/ QueryEventsFails(w)
    \/ QueryEvents(w)
    \/ \E env \in NucleiEnvs \cup {NoEnv} : CallPlugin(w, env)
    \/ CommitDone(w)
    \/ CommitDoneFails(w)
    \/ HandlerCommit(w)
    \/ HandlerRaises(w)

Next ==
    \/ \E w \in Workers : Step(w)
    \/ Tick
    \/ \E a \in Deletable : DeleteAsset(a)

Spec == Init /\ [][Next]_vars

\* A worker that is inside run_scan goes on executing it: the steps of an
\* invocation in progress are taken, while deliveries, the clock and the
\* asset layer owe nothing.
SpecLive == Spec /\ \A w \in Workers : WF_vars(wk[w].pc # "idle" /\ Step(w))

(* --------------- run_scan over any BasePlugin implementation ----------- *)

\* Drafts per PluginResult of the arbitrary plugin.
MaxDrafts == 2

\* Finding-drafts an implementation of BasePlugin.run may return: a full
\* draft, one with neither severity nor category, one with no title.
AnyDrafts ==
    {[title |-> "open port", severity |-> "high", category |-> "exposure", evidence |-> "22/tcp"],
     [title |-> "banner", evidence |-> "nginx"],
     [severity |-> "medium", category |-> "exposure"]}

AnyFindings == UNION {[1 .. n -> AnyDrafts] : n \in 0 .. MaxDrafts}

\* What a call of BasePlugin.run can do: return a PluginResult or raise.
AnyOutcomes ==
    {Returned(PluginResult(fs, ap), FALSE, {}, FALSE) :
        fs \in AnyFindings, ap \in {NoPath, "/tmp/threatsense_artifacts/out.json"}}
    \cup {Raised("NotImplementedError", FALSE, {}, FALSE)}

CallAnyPlugin(w, out) ==
    LET sid == wk[w].sid
        called == [wk[w] EXCEPT !.calls = @ + 1, !.asset_loaded = TRUE]
    IN  /\ wk[w].pc = "call_plugin"
        /\ wk[w].asset_loaded \/ cfg[sid].asset_id \in assets
        /\ out \in AnyOutcomes
        /\ IF out.raised
             THEN Except(w, called, out.msg)
             ELSE Set(w, [called EXCEPT !.pc = "persist", !.result = out.ret])
        /\ UNCHANGED <<cfg, scanRuns, assets, findings, events, now, fsDirs, fsFiles, deliveries, passed>>

InitOrch ==
    /\ Init
    /\ cfg["s1"] = Request("a1", "nmap_stub", P_EMPTY)

StepOrch(w) ==
    \/ DeliverUnknown(w)
    \/ SelectScan(w, "s1")
    \/ AssetNotFound(w)
    \/ CommitAssetMissing(w)
    \/ GuardNoOp(w)
    \/ GuardPass(w)
    \/ CommitRunning(w)
    \/ Resolve(w)
    \/ AssetExpired(w)
    \/ \E out \in AnyOutcomes : CallAnyPlugin(w, out)
    \/ PersistFault(w)
    \/ CommitDone(w)
    \/ CommitDoneFails(w)
    \/ HandlerCommit(w)
    \/ HandlerRaises(w)
    \/ HandlerCommitFails(w)

NextOrch ==
    \/ \E w \in Workers : StepOrch(w)
    \/ Tick
    \/ \E a \in Deletable : DeleteAsset(a)

SpecOrch == InitOrch /\ [][NextOrch]_vars

(* --------------------------- redelivery -------------------------------- *)

\* Two nuclei scans, of which the queue delivers s1 once more after its
\* MaxDeliveries deliveries (acks_late redelivery, a retried request).

\* The queue delivers sid again after its other deliveries.
SelectAgain(w, sid) ==
    /\ Takes(w)
    /\ deliveries = MaxDeliveries
    /\ sid \in ScanIds
    /\ deliveries' = deliveries + 1
    /\ Set(w, [Idle EXCEPT !.pc = "select_asset", !.sid = sid,
                           !.status0 = scanRuns[sid].status, !.obj = scanRuns[sid]])
    /\ UNCHANGED <<cfg, scanRuns, assets, findings, events, now, fsDirs, fsFiles, passed>>

InitAgain ==
    /\ cfg = [s \in ScanIds |-> IF s = "s1" THEN Request("a1", "nuclei_scan", P_WCT)
                                             ELSE Request("a2", "nuclei_scan", P_WCT)]
    /\ scanRuns = [s \in ScanIds |-> QueuedRow]
    /\ assets = AssetIds
    /\ findings = EmptyBag
    /\ events = EventTable
    /\ now = 0
    /\ fsDirs = {}
    /\ fsFiles = {}
    /\ deliveries = 0
    /\ passed = [s \in ScanIds |-> 0]
    /\ wk = [w \in Workers |-> Idle]

StepAgain(w) ==
    \/ \E sid \in ScanIds : SelectScan(w, sid)
    \/ SelectAgain(w, "s1")
    \/ AssetNotFound(w)
    \/ CommitAssetMissing(w)
    \/ GuardNoOp(w)
    \/ GuardPass(w)
    \/ CommitRunning(w)
    \/ Resolve(w)
    \/ AssetExpired(w)
    \/ \E env \in NucleiEnvs \cup {NoEnv} : CallPlugin(w, env)
    \/ CommitDone(w)
    \/ CommitDoneFails(w)
    \/ HandlerCommit(w)
    \/ HandlerRaises(w)

NextAgain ==
    \/ \E w \in Workers : StepAgain(w)
    \/ \E a \in Deletable : DeleteAsset(a)

SpecAgain == InitAgain /\ [][NextAgain]_vars

(* ----------------------- a plugin on its own --------------------------- *)

\* One call of plugin.run on arguments drawn from the sets below: worker w1
\* holds the arguments, then what the call returned or raised.

\* How many events beyond a threshold a group of a batch holds at most.
MaxOver == 1
\* The most admin events of a batch: past the cap of the example list.
MaxAdmin == 6

Merge(f, g) == [k \in DOMAIN f \cup DOMAIN g |-> IF k \in DOMAIN g THEN g[k] ELSE f[k]]
Rep(e, n) == [i \in 1 .. n |-> e]

Ev(event_type, user, ip, ts) ==
    [event_type |-> event_type, user |-> user, ip |-> ip, ts |-> ts]

\* Timestamps of an event: now, 20 minutes ago, missing, not ISO, and an
\* instant 20 minutes ago written with a +01:00 offset.
TsValues == {IsoFormatZ(0), IsoFormatZ(-1200), NoneStr, "yesterday", "ts2400+01:00"}

\* The thresholds parameter: absent, small overrides, an override of zero,
\* an override that is no number.
NoThresholds == EmptyDict
SmallThresholds ==
    [thresholds |-> JDict([failed_login_per_user_ip |-> JInt(2),
                           failed_login_global_per_ip |-> JInt(4),
                           admin_actions_per_window |-> JStr("2")])]
ZeroThresholds == [thresholds |-> JDict([failed_login_per_user_ip |-> JInt(0)])]
BadThresholds == [thresholds |-> JDict([admin_actions_per_window |-> JStr("many")])]

\* Failed logins against one address: a for alice, b for bob (whose events
\* lack the ip when noip), c with no user; the first group stamped ts.
FailBatch(a, b, c, ts, noip) ==
    Rep(Ev("auth_failed", "alice", "9.9.9.9", ts), a)
    \o Rep(Ev("login_failed", "bob", IF noip THEN NoneStr ELSE "9.9.9.9", IsoFormatZ(0)), b)
    \o Rep(Ev("failed_login", NoneStr, "9.9.9.9", IsoFormatZ(0)), c)

FailCounts(thr) ==
    LET pair == Threshold(thr, "failed_login_per_user_ip", 10).n
        global == Threshold(thr, "failed_login_global_per_ip", 30).n
    IN  {0} \cup ((pair - 1) .. (pair + MaxOver)) \cup {global \div 2}

\* d admin events of distinct users, the first stamped ts, after one login.
AdminBatch(d, ts) ==
    <<Ev("login_ok", "alice", "9.9.9.9", IsoFormatZ(0))>>
    \o [i \in 1 .. d |->
            Ev(IF i % 2 = 1 THEN "admin_action" ELSE "privileged_action",
               "adm" \o ToString(i), "10.0.0.1", IF i = 1 THEN ts ELSE IsoFormatZ(0))]

\* Batches of one or two events of other kinds.
OtherEvents ==
    {Ev("login_ok", "alice", "9.9.9.9", IsoFormatZ(0)),
     Ev("admin_created", "root", "1.2.3.4", IsoFormatZ(-1200)),
     Merge(Ev("config_change", "root", "1.2.3.4", IsoFormatZ(0)), [action |-> "grant admin role"]),
     Merge(Ev("login_ok", "bob", "7.7.7.7", NoneStr), [session_signal |-> "reuse"]),
     Merge(Ev("login_ok", "bob", "7.7.7.7", IsoFormatZ(-1200)), [session_signal |-> "reuse"])}

\* Values of params["events"]: absent, not a list, the empty list, batches.
EventsValues(thr) ==
    {JNone, JStr("events.json"), JInt(3), JList(<<>>)}
    \cup {JList(<<e>>) : e \in OtherEvents}
    \cup {JList(<<e, f>>) : e \in OtherEvents, f \in OtherEvents}
    \cup {JList(FailBatch(a, b, c, ts, noip)) :
            a \in FailCounts(thr), b \in FailCounts(thr), c \in FailCounts(thr),
            ts \in TsValues, noip \in BOOLEAN}
    \cup {JList(AdminBatch(d, ts)) : d \in 0 .. MaxAdmin, ts \in TsValues}

WindowValues ==
    {EmptyDict, [window_minutes |-> JInt(30)], [window_minutes |-> JStr("15")],
     [window_minutes |-> JStr("soon")]}

SocParams ==
    {Merge(thr, [events |-> ev]) :
        thr \in {NoThresholds, SmallThresholds}, ev \in EventsValues(NoThresholds)}
    \cup {Merge(SmallThresholds, [events |-> ev]) : ev \in EventsValues(SmallThresholds)}
    \cup {Merge(Merge(win, thr), [events |-> ev]) :
            win \in WindowValues,
            thr \in {NoThresholds, ZeroThresholds, BadThresholds},
            ev \in {JNone, JList(<<>>)}
                   \cup {JList(<<e>>) : e \in OtherEvents}
                   \cup {JList(FailBatch(a, 0, 0, ts, FALSE)) : a \in {9, 10}, ts \in TsValues}
                   \cup {JList(AdminBatch(d, ts)) : d \in {2, 3}, ts \in TsValues}}

NucleiParams ==
    {EmptyDict, [wall_clock_timeout |-> JInt(1)], [wall_clock_timeout |-> JStr("2")],
     [wall_clock_timeout |-> JStr("fast")], [run_id |-> JStr("r1")],
     [target_url |-> JStr("https://app.y.test/login")]}

\* The artifact files left by earlier runs.
OldFiles(p) == {{}, {NucleiOutPath(p, 0)}}

Holding(plugin, p) ==
    [Idle EXCEPT !.pc = "plugin_call", !.sid = "s1", !.params = p]

InitPlugin ==
    /\ \E a \in AssetIds, plugin \in {"nuclei_scan", "soc_rules"} :
            cfg = [s \in ScanIds |-> Request(a, plugin, P_OBJ)]
    /\ scanRuns = [s \in ScanIds |-> QueuedRow]
    /\ assets = AssetIds
    /\ findings = EmptyBag
    /\ events = EventTable
    /\ now = 0
    /\ deliveries = 0
    /\ passed = [s \in ScanIds |-> 0]
    /\ \E p \in (IF cfg["s1"].plugin = "soc_rules" THEN SocParams ELSE NucleiParams) :
            /\ wk = [w \in Workers |-> IF w = "w1" THEN Holding(cfg["s1"].plugin, p) ELSE Idle]
            /\ fsFiles \in (IF cfg["s1"].plugin = "soc_rules" THEN {{}} ELSE OldFiles(p))
    /\ fsDirs = IF fsFiles = {} THEN {} ELSE {ArtifactsRoot(wk["w1"].params)}

\* What the call left in the worker and in the artifacts file system.
AfterCall(w, env, out) ==
    /\ fsDirs' = fsDirs \cup (IF out.mkdir THEN {ArtifactsRoot(wk[w].params)} ELSE {})
    /\ fsFiles' = fsFiles \cup out.wrote
    /\ Set(w, [wk[w] EXCEPT !.pc = IF out.raised THEN "plugin_raised" ELSE "plugin_returned",
                            !.result = out.ret,
                            !.exc = IF out.raised THEN out.msg ELSE NoneStr,
                            !.calls = @ + 1,
                            !.started = @ + (IF out.started THEN 1 ELSE 0),
                            !.env = env])
    /\ UNCHANGED <<cfg, scanRuns, assets, findings, events, now, deliveries, passed>>

\* NucleiScan().run(asset.kind, asset.value, params)
NucleiScanCall(w, env) ==
    LET asset == AssetRow(cfg[wk[w].sid].asset_id)
    IN  /\ wk[w].pc = "plugin_call"
        /\ cfg[wk[w].sid].plugin = "nuclei_scan"
        /\ env \in NucleiEnvs
        /\ AfterCall(w, env, NucleiScanRun(asset.kind, asset.value, wk[w].params, env, now, fsFiles))

\* SocRules().run(asset.kind, asset.value, params)
SocRulesCall(w, env) ==
    LET asset == AssetRow(cfg[wk[w].sid].asset_id)
        p == wk[w].params
    IN  /\ wk[w].pc = "plugin_call"
        /\ cfg[wk[w].sid].plugin = "soc_rules"
        /\ env \in EnvsFor("soc_rules")
        /\ AfterCall(w, env, SocRulesRun(asset.kind, asset.value, p, DictGet(p, "events"), env, now))

NextPlugin ==
    \E w \in Workers, env \in NucleiEnvs :
        \/ NucleiScanCall(w, env)
        \/ SocRulesCall(w, env)

SpecPlugin == InitPlugin /\ [][NextPlugin]_vars

(* ======================= properties of run_scan ======================== *)

Terminal(st) == st \in {"done", "failed"}

\* The step is a step of worker w's invocation.
StepOf(w) == wk'[w] # wk[w]

\* Worker w has an invocation in progress.
Active(w) == wk[w].pc # "idle"

\* The step ends worker w's invocation.
Ends(w) == Active(w) /\ wk'[w].pc = "idle"

\* The Findings of scan s in bag b.
FindingsOf(b, s) == [r \in {x \in DOMAIN b : x.scan_run_id = s} |-> b[r]]

\* The Finding the design document prescribes for draft d of scan s.
ExpectedRow(s, d) ==
    [tenant_id |-> cfg[s].tenant_id, scan_run_id |-> s, asset_id |-> cfg[s].asset_id,
     title |-> d.title,
     severity |-> IF "severity" \in DOMAIN d THEN d.severity ELSE "low",
     category |-> IF "category" \in DOMAIN d THEN d.category ELSE "general",
     evidence |-> IF "evidence" \in DOMAIN d THEN d.evidence ELSE ""]

ExpectedBag(s, fs, n) == BagOf([k \in 1 .. n |-> ExpectedRow(s, fs[k])])

\* C1: an invocation that finds the run done or failed changes nothing in
\* the store and calls no plugin, also when the run's Asset row is gone.
C1_TerminalNoOp ==
    [][\A w \in Workers :
          (StepOf(w) /\ Active(w) /\ Terminal(wk[w].status0)) =>
              /\ scanRuns' = scanRuns
              /\ findings' = findings
              /\ wk'[w].calls = 0]_vars

StatusMoves == {<<"queued", "running">>, <<"running", "done">>, <<"running", "failed">>,
                <<"queued", "failed">>}

\* C2: under every interleaving the stored status only moves forward along
\* queued -> running -> done | failed, and once it is done or failed no
\* field of the row changes again.
C2_StatusMonotone ==
    [][\A s \in ScanIds :
          /\ scanRuns'[s].status # scanRuns[s].status =>
                 <<scanRuns[s].status, scanRuns'[s].status>> \in StatusMoves
          /\ Terminal(scanRuns[s].status) => scanRuns'[s] = scanRuns[s]]_vars

\* C3: an invocation that loaded the run as queued and finds no Asset row
\* makes one write, status failed with the message "Asset not found", and
\* ends; it calls no plugin, writes no Finding and never writes running.
C3_AssetMissingFailsDirectly ==
    [][\A w \in Workers :
          (StepOf(w) /\ wk[w].status0 = "queued") =>
              /\ (wk[w].pc = "select_asset" /\ cfg[wk[w].sid].asset_id \notin assets) =>
                     /\ wk'[w].pc = "commit_missing"
                     /\ scanRuns' = scanRuns
                     /\ findings' = findings
              /\ wk[w].pc = "commit_missing" =>
                     /\ scanRuns'[wk[w].sid].status = "failed"
                     /\ scanRuns'[wk[w].sid].error_message = "Asset not found"
                     /\ scanRuns'[wk[w].sid].error_message \notin {NoneStr, ""}
                     /\ scanRuns'[wk[w].sid].started_at = scanRuns[wk[w].sid].started_at
                     /\ findings' = findings
                     /\ wk[w].calls = 0
                     /\ wk'[w].pc = "idle"]_vars

\* A queued run was failed for its missing Asset: it never ran.
C3_Witness ==
    /\ scanRuns["s1"].status = "failed"
    /\ scanRuns["s1"].error_message = "Asset not found"
    /\ scanRuns["s1"].started_at = NoTime
    /\ passed["s1"] = 0

C5_FaultEndsFailed ==
    [][\A w \in Workers :
          (StepOf(w) /\ Ends(w) /\ wk[w].pc \in {"handler", "handler_inactive"}) =>
              /\ scanRuns'[wk[w].sid].status = "failed"
              /\ scanRuns'[wk[w].sid].finished_at # NoTime
              /\ scanRuns'[wk[w].sid].error_message = wk[w].exc]_vars

\* C6: the commit after a plugin returned n drafts and nothing failed adds
\* exactly the n Findings of the drafts, bound to the run, its asset and
\* tenant, severity "low" and category "general" where the draft has none;
\* when the invocation is the only one that passed the guard the run is then
\* done with finished_at and the result's artifact_path and has exactly these
\* Findings; no step ever removes a Finding.
C6_DoneHasAllFindings ==
    [][/\ \A r \in DOMAIN findings :
              r \in DOMAIN findings' /\ findings'[r] >= findings[r]
       /\ \A w \in Workers :
              (StepOf(w) /\ Ends(w) /\ wk[w].pc = "persist") =>
                  LET s == wk[w].sid
                      fs == wk[w].result.findings
                  IN  /\ findings' = findings (+) ExpectedBag(s, fs, Len(fs))
                      /\ passed[s] = 1 =>
                             /\ scanRuns'[s].status = "done"
                             /\ scanRuns'[s].finished_at = now
                             /\ scanRuns'[s].artifact_path = wk[w].result.artifact_path
                             /\ FindingsOf(findings', s) = ExpectedBag(s, fs, Len(fs))]_vars

\* A run executed by one invocation is done and holds a Finding whose
\* severity and category were defaulted.
C6_Witness ==
    /\ scanRuns["s1"].status = "done"
    /\ passed["s1"] = 1
    /\ \E r \in DOMAIN findings :
           r.scan_run_id = "s1" /\ r.severity = "low" /\ r.category = "general"

\* C7: when building the k-th Finding raises, k > 1, the handler's commit
\* either stores the Findings of drafts 1 .. k-1 together with the failure
\* or is rejected and changes nothing; whenever it changes the run's row the
\* k-1 Findings are stored with it, and no step removes a Finding.
C7_PartialFindingsKept ==
    [][/\ \A r \in DOMAIN findings :
              r \in DOMAIN findings' /\ findings'[r] >= findings[r]
       /\ \A w \in Workers :
              LET s == wk[w].sid
                  fs == wk[w].result.findings
                  k == FirstBadDraft(fs)
                  kept == /\ findings' = findings (+) ExpectedBag(s, fs, k - 1)
                          /\ \A j \in 1 .. k - 1 : BagIn(ExpectedRow(s, fs[j]), findings')
              IN  (StepOf(w) /\ wk[w].pc = "handler" /\ wk[w].exc = "'title'" /\ k > 1) =>
                      /\ kept \/ (findings' = findings /\ scanRuns' = scanRuns)
                      /\ scanRuns'[s] # scanRuns[s] => kept
                      /\ (kept /\ scanRuns[s] = wk[w].obj) =>
                             scanRuns'[s].status = "failed"]_vars

\* A failed run whose second draft had no title kept the first Finding.
C7_Witness ==
    /\ scanRuns["s1"].status = "failed"
    /\ scanRuns["s1"].error_message = "'title'"
    /\ \E r \in DOMAIN findings : r.scan_run_id = "s1"

\* C8: an invocation calls the plugin's run at most once: none before the
\* call site, one after it, and control never returns to the call site.
C8_PluginCalledAtMostOnce ==
    \A w \in Workers :
        /\ wk[w].calls <= 1
        /\ wk[w].pc = "call_plugin" => wk[w].calls = 0
        /\ wk[w].pc = "persist" => wk[w].calls = 1
        /\ wk[w].calls = 1 => wk[w].pc \in {"persist", "handler", "handler_inactive"}

\* The plugin raised: the handler runs after the one call.
C8_Witness ==
    \E w \in Workers : wk[w].pc = "handler" /\ wk[w].calls = 1

\* The environment of a nuclei call failed: no binary, the process crashed
\* or could not be started.
EnvironmentError(e) ==
    \/ ~e.exists
    \/ e.exists /\ e.mkdir_ok /\ e.proc \in {"crash", "oserror"}

\* C9: an invocation of the nuclei plugin that met an environment error or
\* the timeout ends with the run done, no error_message and exactly one
\* scanner_error Finding, high for the environment error, medium for the
\* timeout (stated for the invocations whose commits the store accepts).
C9_EnvironmentErrorIsDone ==
    [][\A w \in Workers :
          LET s == wk[w].sid
              e == wk[w].env
              timeout == e.exists /\ e.mkdir_ok /\ e.proc = "timeout"
          IN  (/\ StepOf(w) /\ Ends(w)
               /\ wk[w].pc # "handler_inactive"
               /\ cfg[s].plugin = "nuclei_scan" /\ wk[w].calls = 1
               /\ (~e.exists \/ wk[w].started = 1)
               /\ (EnvironmentError(e) \/ timeout)) =>
                  /\ scanRuns'[s].status = "done"
                  /\ scanRuns'[s].error_message = NoneStr
                  /\ \E r \in DOMAIN findings' :
                         /\ r.scan_run_id = s
                         /\ r.category = "scanner_error"
                         /\ r.severity = IF timeout THEN "medium" ELSE "high"
                         /\ findings' = findings (+) SetToBag({r})]_vars

\* C10: a nuclei call that finds no binary returns one high scanner_error
\* draft and no artifact path, starts no process and creates neither the
\* artifact directory nor a file.
C10_MissingBinary ==
    [][\A w \in Workers :
          (/\ StepOf(w) /\ wk[w].pc = "call_plugin"
           /\ cfg[wk[w].sid].plugin = "nuclei_scan"
           /\ wk'[w].calls = 1 /\ ~wk'[w].env.exists) =>
              /\ wk'[w].pc = "persist"
              /\ ~wk'[w].result.isNone
              /\ Len(wk'[w].result.findings) = 1
              /\ wk'[w].result.findings[1].severity = "high"
              /\ wk'[w].result.findings[1].category = "scanner_error"
              /\ wk'[w].result.artifact_path = NoPath
              /\ wk'[w].started = 0
              /\ fsDirs' = fsDirs
              /\ fsFiles' = fsFiles]_vars

\* The nuclei plugin returned without a binary.
C10_Witness ==
    \E w \in Workers :
        /\ wk[w].pc = "persist"
        /\ cfg[wk[w].sid].plugin = "nuclei_scan"
        /\ wk[w].calls = 1 /\ ~wk[w].env.exists
        /\ Len(wk[w].result.findings) = 1

(* ===================== properties of the plugins ======================= *)

\* The call of plugin.run worker w made is over.
Called(w, plugin) ==
    /\ wk[w].pc \in {"plugin_returned", "plugin_raised"}
    /\ cfg[wk[w].sid].plugin = plugin

\* C11: when the nuclei process exceeds the wall-clock timeout, run returns
\* exactly one finding, of category scanner_error and severity medium, whose
\* evidence names the timeout value and the target; the result's
\* artifact_path is the output path if that file exists then, unset
\* otherwise.
C11_TimeoutResult ==
    \A w \in Workers :
        (Called(w, "nuclei_scan") /\ wk[w].started = 1 /\ wk[w].env.proc = "timeout") =>
            LET p == wk[w].params
                asset == AssetRow(cfg[wk[w].sid].asset_id)
                limit == IF "wall_clock_timeout" \in DOMAIN p
                           THEN (IF p["wall_clock_timeout"].t = "int"
                                   THEN p["wall_clock_timeout"].n
                                   ELSE IntLiterals[p["wall_clock_timeout"].s])
                           ELSE 600
                target == IF "target_url" \in DOMAIN p THEN p["target_url"].s
                          ELSE IF asset.kind = "domain" THEN "https://" \o asset.value
                          ELSE asset.value
                out_path == NucleiOutPath(p, now)
                r == wk[w].result
            IN  /\ wk[w].pc = "plugin_returned"
                /\ ~r.isNone
                /\ Len(r.findings) = 1
                /\ r.findings[1].severity = "medium"
                /\ r.findings[1].category = "scanner_error"
                /\ r.findings[1].evidence =
                        "Scan exceeded wall_clock_timeout=" \o ToString(limit)
                        \o "s for target=" \o target \o "."
                /\ r.artifact_path = IF out_path \in fsFiles THEN out_path ELSE NoPath

\* A timed-out call has returned the path of the output the process left.
C11_Witness ==
    \E w \in Workers :
        /\ Called(w, "nuclei_scan") /\ wk[w].started = 1 /\ wk[w].env.proc = "timeout"
        /\ wk[w].result.artifact_path = NucleiOutPath(wk[w].params, now)
        /\ wk[w].params = [wall_clock_timeout |-> JStr("2")]

\* The nuclei process of worker w's invocation ran and exited by itself.
NormalExit(w) ==
    /\ wk[w].pc = "persist"
    /\ cfg[wk[w].sid].plugin = "nuclei_scan"
    /\ wk[w].started = 1
    /\ wk[w].env.proc \in {"exit0", "exit_nonzero"}

\* C12: when the nuclei process exits by itself, with exit code zero or not,
\* run returns a result that carries the artifact path, and the invocation
\* ends with the run done and its artifact_path set to that path.
C12_NormalExitIsDone ==
    [][\A w \in Workers :
          (StepOf(w) /\ NormalExit(w)) =>
              /\ ~wk[w].result.isNone
              /\ wk[w].result.artifact_path \in
                    {NucleiOutPath(wk[w].params, t) : t \in 0 .. MaxNow}
              /\ wk'[w].pc = "idle"
              /\ scanRuns'[wk[w].sid].status = "done"
              /\ scanRuns'[wk[w].sid].artifact_path = wk[w].result.artifact_path]_vars

\* The arguments of worker w's call of SocRules.run: the events value, the
\* window, the thresholds, and the events run takes as the working set.
EventsArg(w) == DictGet(wk[w].params, "events")
IsBatch(w) == EventsArg(w).t = "list" /\ EventsArg(w).items # <<>>
WindowArg(w) == PyInt(PyOr(DictGet(wk[w].params, "window_minutes"), JInt(15)))
ThresholdArg(w, k, default) == Threshold(wk[w].params, k, default)
ArgsConvert(w) ==
    /\ WindowArg(w).ok
    /\ ThresholdArg(w, "failed_login_per_user_ip", 10).ok
    /\ ThresholdArg(w, "failed_login_global_per_ip", 30).ok
    /\ ThresholdArg(w, "admin_actions_per_window", 3).ok
Taken(w) == InWindow(EventsArg(w).items, now, WindowArg(w).n)

\* No rule finds anything in the events seq.
NoRuleFires(w, seq) ==
    /\ DetectBruteforceUserIp(seq, ThresholdArg(w, "failed_login_per_user_ip", 10).n) = <<>>
    /\ DetectBruteforceGlobalIp(seq, ThresholdArg(w, "failed_login_global_per_ip", 30).n) = <<>>
    /\ DetectSuspiciousAdminActivity(seq, ThresholdArg(w, "admin_actions_per_window", 3).n) = <<>>
    /\ DetectNewAdminCreation(seq) = <<>>
    /\ DetectImpossibleTravelHint(seq) = <<>>

\* C13: whatever the events parameter is (absent, not a list, empty, any
\* list of event records), a call of SocRules.run whose other parameters
\* convert and whose artifacts directory can be written returns, and every
\* call that returns, returns at least one finding; when the batch is not
\* empty and no rule fires, it returns exactly one finding, of severity
\* info, whose evidence states the number of events within the window and
\* the window length.
C13_AlwaysAFinding ==
    \A w \in Workers :
        Called(w, "soc_rules") =>
            LET r == wk[w].result
                asset == AssetRow(cfg[wk[w].sid].asset_id)
            IN  /\ (~IsBatch(w) \/ (ArgsConvert(w) /\ wk[w].env.mkdir_ok)) =>
                        wk[w].pc = "plugin_returned"
                /\ wk[w].pc = "plugin_returned" =>
                        /\ ~r.isNone
                        /\ Len(r.findings) >= 1
                        /\ (IsBatch(w) /\ NoRuleFires(w, Taken(w))) =>
                                /\ Len(r.findings) = 1
                                /\ r.findings[1].severity = "info"
                                /\ r.findings[1].evidence =
                                        "Processed " \o ToString(Len(Taken(w)))
                                        \o " events within the last "
                                        \o ToString(WindowArg(w).n)
                                        \o " minutes from source=" \o asset.value
                                        \o ". No alerts fired."

\* A batch with events inside and outside the window has been summarised:
\* no rule fired.
C13_Witness ==
    \E w \in Workers :
        /\ Called(w, "soc_rules") /\ wk[w].pc = "plugin_returned"
        /\ IsBatch(w)
        /\ Len(Taken(w)) >= 2
        /\ Len(Taken(w)) < Len(EventsArg(w).items)
        /\ Len(wk[w].result.findings) = 1
        /\ wk[w].result.findings[1].severity = "info"

\* The user and the ip a failed login counts under.
CountedUser(e) ==
    IF "user" \in DOMAIN e /\ e["user"] \notin {NoneStr, ""} THEN e["user"] ELSE "unknown_user"
CountedIp(e) ==
    IF "ip" \in DOMAIN e /\ e["ip"] \notin {NoneStr, ""} THEN e["ip"] ELSE "unknown_ip"
FailedLogins(seq) ==
    {i \in 1 .. Len(seq) :
        seq[i]["event_type"] \in {"auth_failed", "login_failed", "failed_login"}}

\* How many findings of fs satisfy Is.
HowMany(fs, Is(_)) == Cardinality({i \in 1 .. Len(fs) : Is(fs[i])})

\* C14: the result holds exactly one high finding for each (user, ip) pair
\* whose failed logins within the window number at least the per-user-ip
\* threshold, and none for a pair below it; an event without user or ip
\* counts under unknown_user / unknown_ip.
C14_BruteforcePerPair ==
    \A w \in Workers :
        (Called(w, "soc_rules") /\ wk[w].pc = "plugin_returned" /\ IsBatch(w)) =>
            LET seq == Taken(w)
                th == ThresholdArg(w, "failed_login_per_user_ip", 10).n
                all == EventsArg(w).items
                users == {CountedUser(all[i]) : i \in 1 .. Len(all)}
                ips == {CountedIp(all[i]) : i \in 1 .. Len(all)}
                Fails(u, ip) ==
                    Cardinality({i \in FailedLogins(seq) :
                                    CountedUser(seq[i]) = u /\ CountedIp(seq[i]) = ip})
                IsFor(f, u, ip) ==
                    /\ f.title = "Potential brute force against user " \o u
                    /\ f.evidence = ToString(Fails(u, ip)) \o " failed login attempts for user="
                                    \o u \o " from ip=" \o ip \o " within the monitoring window."
                fs == wk[w].result.findings
            IN  /\ \A u \in users, ip \in ips :
                        /\ HowMany(fs, LAMBDA f : IsFor(f, u, ip) /\ f.severity = "high")
                                = IF Fails(u, ip) >= th THEN 1 ELSE 0
                        /\ HowMany(fs, LAMBDA f : IsFor(f, u, ip)) <= 1
                /\ HowMany(fs, LAMBDA f : \E u \in users :
                                f.title = "Potential brute force against user " \o u)
                        = Cardinality({k \in users \X ips : Fails(k[1], k[2]) >= th})

\* With the default threshold, ten failed logins of alice fired, nine of
\* bob without ip did not, and ten without user fired under unknown_user.
C14_Witness ==
    \E w \in Workers :
        /\ Called(w, "soc_rules") /\ wk[w].pc = "plugin_returned"
        /\ "thresholds" \notin DOMAIN wk[w].params
        /\ EventsArg(w) = JList(FailBatch(10, 9, 10, IsoFormatZ(0), TRUE))
        /\ Len(wk[w].result.findings) = 2
        /\ wk[w].result.findings[2].title = "Potential brute force against user unknown_user"

\* C15: the result holds a password-spraying finding for an ip exactly when
\* the failed logins from that ip within the window number at least the
\* global threshold and come from at least three distinct users.
C15_SprayPerIp ==
    \A w \in Workers :
        (Called(w, "soc_rules") /\ wk[w].pc = "plugin_returned" /\ IsBatch(w)) =>
            LET seq == Taken(w)
                th == ThresholdArg(w, "failed_login_global_per_ip", 30).n
                all == EventsArg(w).items
                ips == {CountedIp(all[i]) : i \in 1 .. Len(all)}
                From(ip) == {i \in FailedLogins(seq) : CountedIp(seq[i]) = ip}
                UsersFrom(ip) == {CountedUser(seq[i]) : i \in From(ip)}
                IsFor(f, ip) ==
                    /\ f.title = "Potential password spraying activity"
                    /\ f.evidence = ToString(Cardinality(From(ip))) \o " failed logins from ip="
                                    \o ip \o " across "
                                    \o ToString(Cardinality(UsersFrom(ip))) \o " users."
                fs == wk[w].result.findings
            IN  /\ \A ip \in ips :
                        (\E i \in 1 .. Len(fs) : IsFor(fs[i], ip)) <=>
                            (Cardinality(From(ip)) >= th /\ Cardinality(UsersFrom(ip)) >= 3)
                /\ HowMany(fs, LAMBDA f : f.title = "Potential password spraying activity")
                        = Cardinality({ip \in ips : Cardinality(From(ip)) >= th
                                                    /\ Cardinality(UsersFrom(ip)) >= 3})

\* With the default threshold, thirty failed logins from one address over
\* three users have fired the rule.
C15_Witness ==
    \E w \in Workers :
        /\ Called(w, "soc_rules") /\ wk[w].pc = "plugin_returned"
        /\ "thresholds" \notin DOMAIN wk[w].params
        /\ EventsArg(w) = JList(FailBatch(11, 10, 9, IsoFormatZ(0), FALSE))
        /\ \E i \in 1 .. Len(wk[w].result.findings) :
                wk[w].result.findings[i].evidence =
                    "30 failed logins from ip=9.9.9.9 across 3 users."

\* C16: the result holds exactly one medium admin-burst finding when the
\* admin_action / privileged_action events within the window number at
\* least the threshold, and none below it; the finding reports the full
\* count, and its examples are the first min(count, 5) such events in
\* input order.
C16_AdminBurst ==
    \A w \in Workers :
        (Called(w, "soc_rules") /\ wk[w].pc = "plugin_returned" /\ IsBatch(w)) =>
            LET seq == Taken(w)
                th == ThresholdArg(w, "admin_actions_per_window", 3).n
                admin == {i \in 1 .. Len(seq) :
                            seq[i]["event_type"] \in {"admin_action", "privileged_action"}}
                count == Cardinality(admin)
                Nth(k) == CHOOSE i \in admin : Cardinality({j \in admin : j <= i}) = k
                fs == wk[w].result.findings
                bursts == {i \in 1 .. Len(fs) :
                            fs[i].title = "Burst of privileged/admin actions detected"}
            IN  /\ Cardinality(bursts) = IF count >= th THEN 1 ELSE 0
                /\ \A i \in bursts :
                        /\ fs[i].severity = "medium"
                        /\ fs[i].evidence = ToString(count)
                                \o " privileged actions within the monitoring window."
                        /\ Len(fs[i].examples) = IF count < 5 THEN count ELSE 5
                        /\ \A k \in 1 .. Len(fs[i].examples) :
                                fs[i].examples[k] =
                                    seq[Nth(k)]["ts"] \o ":" \o seq[Nth(k)]["event_type"] \o ":"
                                    \o seq[Nth(k)]["user"] \o "@" \o seq[Nth(k)]["ip"]

\* Six admin events within the window have fired the rule: the finding
\* counts six and shows five.
C16_Witness ==
    \E w \in Workers :
        /\ Called(w, "soc_rules") /\ wk[w].pc = "plugin_returned"
        /\ EventsArg(w) = JList(AdminBatch(6, IsoFormatZ(0)))
        /\ \E i \in 1 .. Len(wk[w].result.findings) :
                /\ wk[w].result.findings[i].title = "Burst of privileged/admin actions detected"
                /\ Len(wk[w].result.findings[i].examples) = 5

\* The instant the timestamp of event e denotes, now (t) when it is missing
\* or does not parse.
Instant(e, t) ==
    LET v == IF "ts" \in DOMAIN e THEN e["ts"] ELSE NoneStr
    IN  IF \E i \in Seconds : IsoFormatZ(i) = v
          THEN CHOOSE i \in Seconds : IsoFormatZ(i) = v
        ELSE IF v \in DOMAIN OffsetTexts
          THEN OffsetTexts[v].wall - OffsetTexts[v].offset
          ELSE t

\* What the five rules, or the summary, report on the events seq.
ReportOn(w, seq) ==
    LET fired == DetectBruteforceUserIp(seq, ThresholdArg(w, "failed_login_per_user_ip", 10).n)
                 \o DetectBruteforceGlobalIp(seq, ThresholdArg(w, "failed_login_global_per_ip", 30).n)
                 \o DetectSuspiciousAdminActivity(seq, ThresholdArg(w, "admin_actions_per_window", 3).n)
                 \o DetectNewAdminCreation(seq)
                 \o DetectImpossibleTravelHint(seq)
    IN  IF fired = <<>>
          THEN <<SummaryFinding(Len(seq), WindowArg(w).n, AssetRow(cfg[wk[w].sid].asset_id).value)>>
          ELSE fired

\* C17: the rules and the summary see one working set: the events whose
\* timestamp denotes an instant not older than now minus window_minutes,
\* and the events whose timestamp is missing or does not parse; an older
\* event contributes to no rule and is not counted.
C17_WorkingSet ==
    \A w \in Workers :
        (Called(w, "soc_rules") /\ wk[w].pc = "plugin_returned" /\ IsBatch(w)) =>
            LET all == EventsArg(w).items
                recent == SelectSeq(all, LAMBDA e :
                              Instant(e, now) >= now - WindowArg(w).n * 60)
            IN  wk[w].result.findings = ReportOn(w, recent)

\* C18: the same scan id delivered to two workers while the run is queued
\* or running lets both pass the guard, call the plugin and persist, so the
\* findings of one plugin result come to be stored twice for one ScanRun;
\* a Finding is stored as many times as invocations of its run passed the
\* guard at most, so the copies stem from repeated execution alone.
C18_CopiesStemFromPasses ==
    \A r \in DOMAIN findings : findings[r] <= passed[r.scan_run_id]

\* Both deliveries of s1 passed the guard and the stub's finding is stored
\* twice for s1.
C18_Witness ==
    /\ cfg["s1"].plugin = "nmap_stub"
    /\ passed["s1"] = 2
    /\ \A w \in Workers : wk[w].pc = "idle"
    /\ scanRuns["s1"].status = "done"
    /\ \E r \in DOMAIN findings :
            /\ r.scan_run_id = "s1"
            /\ r.title = "Exposure check for m365"
            /\ findings[r] = 2

\* Worker w's invocation has committed running and has not got its plugin
\* result yet: it is decoding the parameters, resolving the plugin,
\* collecting the events or inside plugin.run.
BeforeResult(w) == wk[w].pc \in {"decode", "query_events", "call_plugin"}

\* C19: an invocation that passed the guard has committed status running
\* and started_at before it resolves or calls the plugin, so the store shows
\* the run running until the plugin call is over; and no Finding of a run is
\* stored while the run is queued.
C19_RunningBeforePlugin ==
    /\ \A w \in Workers :
            BeforeResult(w) =>
                /\ scanRuns[wk[w].sid].status = "running"
                /\ scanRuns[wk[w].sid].started_at # NoTime
    /\ \A r \in DOMAIN findings : scanRuns[r.scan_run_id].status # "queued"

\* C20: two scans that run the same artifact-writing plugin at the same
\* time never use one artifact file: the paths their plugin calls report
\* differ, also when both start within one second and name no run_id.
C20_DistinctArtifacts ==
    \A w, v \in Workers :
        (/\ w # v
         /\ wk[w].pc = "persist" /\ wk[v].pc = "persist"
         /\ wk[w].sid # wk[v].sid
         /\ cfg[wk[w].sid].plugin = cfg[wk[v].sid].plugin
         /\ wk[w].result.artifact_path # NoPath
         /\ wk[v].result.artifact_path # NoPath) =>
            wk[w].result.artifact_path # wk[v].result.artifact_path

(* ================== properties of the store as a whole ================= *)

\* The scan id of the invocation that takes the step of worker w.
InvocationOf(w) == IF Active(w) THEN wk[w].sid ELSE wk'[w].sid

\* The step is the delivery of an id that matches no ScanRun: the queue
\* counts it and no worker holds an invocation for it.
UnknownDelivered == deliveries' # deliveries /\ wk' = wk

\* C21: a step of run_scan(s) leaves every other ScanRun, every Asset and
\* every Event as it was, and each Finding it adds carries scan_run_id s
\* with the tenant_id and asset_id of run s; no step removes or changes a
\* stored Finding; a delivery of an id that matches no ScanRun writes
\* nothing.
C21_WritesScopedToRun ==
    [][/\ \A r \in DOMAIN findings :
              r \in DOMAIN findings' /\ findings'[r] >= findings[r]
       /\ \A w \in Workers :
              StepOf(w) =>
                  LET s == InvocationOf(w)
                  IN  /\ \A o \in ScanIds \ {s} : scanRuns'[o] = scanRuns[o]
                      /\ cfg' = cfg
                      /\ assets' = assets
                      /\ events' = events
                      /\ \A r \in DOMAIN findings' :
                             (r \notin DOMAIN findings \/ findings'[r] > findings[r]) =>
                                 /\ r.scan_run_id = s
                                 /\ r.tenant_id = cfg[s].tenant_id
                                 /\ r.asset_id = cfg[s].asset_id
       /\ UnknownDelivered =>
              /\ scanRuns' = scanRuns /\ findings' = findings
              /\ cfg' = cfg /\ assets' = assets /\ events' = events]_vars

\* The invocation for s1 stored its Findings and finished while s2, on
\* another asset, is running: s2's row holds what its own invocation wrote.
C21_Witness ==
    /\ scanRuns["s1"].status = "done"
    /\ \E r \in DOMAIN findings : r.scan_run_id = "s1" /\ r.asset_id = "a1"
    /\ \A r \in DOMAIN findings : r.scan_run_id = "s1"
    /\ scanRuns["s2"].status = "running"
    /\ scanRuns["s2"].finished_at = NoTime
    /\ \E w \in Workers : wk[w].sid = "s2" /\ wk[w].pc = "persist"

\* C22: every invocation that loaded an existing run as queued or running
\* comes to its end with the run stored done or failed, given that a worker
\* inside run_scan keeps executing and the plugin call returns or raises.
C22_EndsTerminal ==
    \A w \in Workers : \A s \in ScanIds :
        (wk[w].sid = s /\ wk[w].status0 \in {"queued", "running"})
            ~> (wk[w].pc = "idle" /\ Terminal(scanRuns[s].status))

\* C23: in every reachable state a ScanRun stored done has started_at and
\* finished_at set and no error_message, and a ScanRun stored queued has
\* started_at, finished_at, artifact_path and error_message all unset.
C23_RowsWellFormed ==
    \A s \in ScanIds :
        /\ scanRuns[s].status = "done" =>
               /\ scanRuns[s].started_at # NoTime
               /\ scanRuns[s].finished_at # NoTime
               /\ scanRuns[s].error_message = NoneStr
        /\ scanRuns[s].status = "queued" => scanRuns[s] = QueuedRow

====
